---------------------------- MODULE Spec2Model ----------------------------
(***************************************************************************)
(* Model of the package.json repair loop of NpmPackageUpgrader             *)
(* (cli-app/src/utils/packageJsonUtils.ts, shellUtils.ts).                 *)
(*                                                                         *)
(* Text is modelled as a sequence of atoms.  An atom is either one         *)
(* character ("l", "/", "%", ...) or one fixed phrase of yarn's output     *)
(* ("error Couldn't find package ", " Not found", ...).  Package names,    *)
(* aliases and diagnostics are such sequences, so startsWith, the three    *)
(* regular expressions and decodeURIComponent are computed, not assumed.   *)
(*                                                                         *)
(* A value of type `T | undefined` is a sequence of length <= 1:           *)
(* << >> is undefined, << v >> is the value v.                             *)
(*                                                                         *)
(* A Record<string, string> is a function from names to strings.  The      *)
(* names of the model are not property names of Object.prototype, so       *)
(* `name in obj` and `obj[name] = v` act on own properties only.           *)
(***************************************************************************)
EXTENDS Integers, Sequences, FiniteSets, TLC

VARIABLES
    pc,                   \* position of cleanPackageJson: idle, install, save, done, thrown
    disk,                 \* package.json on durable storage (the manifest its text denotes)
    lockedDependencies,   \* the caller's locked set
    packageJson,          \* the in-memory manifest (NoManifest before it is loaded)
    original,             \* the manifest as loaded (history variable)
    removedLocalDeps,
    removedLocalDevDeps,
    removedLockedDeps,
    removedLockedDevDeps,
    removedScripts,
    maxRetries,
    retryCount,
    installCalls,         \* number of runCommand('yarn install') calls (history variable)
    manifestWrites,       \* number of completed writes of package.json (history variable)
    lastError,            \* stderr of the latest failed install, << >> if none
    packageAlias,         \* result of the Error Classifier on lastError
    outcome,              \* how the retry loop ended: none, Success, Aborted, Exhausted
    exhaustionLogged,     \* line 156 was executed
    saveCalls,            \* number of saveRemovedItems calls (history variable)
    exported,             \* the documents written by saveRemovedItems
    run,                  \* number of the call of cleanPackageJson in this process
    allFailuresPruned     \* every failed install so far removed an entry (history variable)

vars == << pc, disk, lockedDependencies, packageJson, original,
           removedLocalDeps, removedLocalDevDeps, removedLockedDeps,
           removedLockedDevDeps, removedScripts, maxRetries, retryCount,
           installCalls, manifestWrites, lastError, packageAlias, outcome,
           exhaustionLogged, saveCalls, exported, run, allFailuresPruned >>

---------------------------------------------------------------------------
(* Bounds of the model *)

MaxDeps == 2          \* entries of dependencies
MaxDevDeps == 1       \* entries of devDependencies
MaxLocked == 2        \* keys of the locked set
MaxCapture == 2       \* atoms of a generated captured text

---------------------------------------------------------------------------
(* Text *)

QUOTE == "\""
CMD_FAILED == "Error: Command failed: yarn install\n"

UNEXPECTED == "error An unexpected error occurred: "

HasColon(a) == a \in {":", "https://", CMD_FAILED, UNEXPECTED}
HasQuote(a) == a = QUOTE
HasSlash(a) == a \in {"/", "https://"}

\* String.prototype.startsWith
startsWith(s, prefix) ==
    /\ Len(prefix) <= Len(s)
    /\ SubSeq(s, 1, Len(prefix)) = prefix

\* error.toString() of the Error that child_process.exec rejects with;
\* the error is modelled by the stderr text it carries
errorToString(error) == << CMD_FAILED >> \o error

\* the three regular expressions: literal prefix, ([^c]+), literal suffix
patterns ==
    << [pre   |-> << "https://", "registry.yarnpkg.com", "/" >>,
        excl  |-> ":",
        post  |-> << ":", " Not found" >>],
       [pre   |-> << "error Couldn't find package ", QUOTE >>,
        excl  |-> QUOTE,
        post  |-> << QUOTE >>],
       [pre   |-> << "error Couldn't find any versions for ", QUOTE >>,
        excl  |-> QUOTE,
        post  |-> << QUOTE, " that matches" >>] >>

InClass(a, excl) == IF excl = ":" THEN ~HasColon(a) ELSE ~HasQuote(a)

\* last index of the maximal run of atoms of the class that starts at index from
RunEnd(s, from, excl) ==
    LET ends == { j \in (from - 1)..Len(s) :
                    \A k \in from..j : InClass(s[k], excl) }
    IN  CHOOSE j \in ends : \A k \in ends : k <= j

\* does pattern p match s starting at index i
MatchAt(p, s, i) ==
    LET from == i + Len(p.pre)
        to   == RunEnd(s, from, p.excl)
    IN  /\ from - 1 <= Len(s)
        /\ SubSeq(s, i, from - 1) = p.pre
        /\ to >= from
        /\ to + Len(p.post) <= Len(s)
        /\ SubSeq(s, to + 1, to + Len(p.post)) = p.post

\* RegExp.prototype.exec: capture group 1 of the leftmost match, << >> if none
exec(p, s) ==
    LET hits == { i \in 1..Len(s) : MatchAt(p, s, i) }
    IN  IF hits = {} THEN << >>
        ELSE LET i    == CHOOSE h \in hits : \A g \in hits : h <= g
                 from == i + Len(p.pre)
             IN  << SubSeq(s, from, RunEnd(s, from, p.excl)) >>

HexDigits == {"0", "2", "4", "F"}

\* the character a percent-escape %XY stands for; escapes of bytes >= 0x80
\* are no character on their own
HexChar(x, y) ==
    CASE x = "4" /\ y = "0" -> << "@" >>
      [] x = "4" /\ y = "2" -> << "B" >>
      [] x = "4" /\ y = "4" -> << "D" >>
      [] x = "4" /\ y = "F" -> << "O" >>
      [] x = "2" /\ y = "0" -> << " " >>
      [] x = "2" /\ y = "2" -> << QUOTE >>
      [] x = "2" /\ y = "4" -> << "$" >>
      [] x = "2" /\ y = "F" -> << "/" >>
      [] x = "0" /\ y = "0" -> << "U+0000" >>
      [] x = "0" /\ y = "2" -> << "U+0002" >>
      [] x = "0" /\ y = "4" -> << "U+0004" >>
      [] x = "0" /\ y = "F" -> << "U+000F" >>
      [] OTHER -> << >>

\* decodeURIComponent: [ok |-> TRUE, str |-> decoded] or, on a malformed
\* escape, [ok |-> FALSE, ...] (URIError is thrown)
RECURSIVE decodeURIComponent(_)
decodeURIComponent(s) ==
    IF s = << >> THEN [ok |-> TRUE, str |-> << >>]
    ELSE IF s[1] # "%"
         THEN LET rest == decodeURIComponent(Tail(s))
              IN  [ok |-> rest.ok, str |-> << s[1] >> \o rest.str]
    ELSE IF Len(s) >= 3 /\ s[2] \in HexDigits /\ s[3] \in HexDigits
               /\ HexChar(s[2], s[3]) # << >>
         THEN LET rest == decodeURIComponent(SubSeq(s, 4, Len(s)))
              IN  [ok |-> rest.ok, str |-> HexChar(s[2], s[3]) \o rest.str]
    ELSE [ok |-> FALSE, str |-> << >>]

\* mutant: the whole decoded text is taken as the alias
aliasMatch_Whole(decodedString) ==
    IF decodedString = << >> \/ HasSlash(decodedString[1])
    THEN << >> ELSE << decodedString >>

\* decodedString.match(/^([^\/]+)/): group 1, << >> if no match
aliasMatch(decodedString) ==
    LET ends == { j \in 0..Len(decodedString) :
                    \A k \in 1..j : ~HasSlash(decodedString[k]) }
        to   == CHOOSE j \in ends : \A k \in ends : k <= j
    IN  IF to = 0 THEN << >> ELSE << SubSeq(decodedString, 1, to) >>

Alias(a) == [kind |-> "alias", alias |-> a]
Null     == [kind |-> "null",  alias |-> << >>]
URIError == [kind |-> "throw", alias |-> << >>]

\* the loop of parseErrorForPackageAlias from pattern number k on
RECURSIVE parseFrom(_, _)
parseFrom(k, text) ==
    IF k > Len(patterns) THEN Null
    ELSE LET match == exec(patterns[k], text)
         IN  IF match = << >> THEN parseFrom(k + 1, text)
             ELSE LET decoded == decodeURIComponent(match[1])
                  IN  IF ~decoded.ok THEN URIError
                      ELSE IF aliasMatch(decoded.str) # << >>
                           THEN Alias(aliasMatch(decoded.str)[1])
                           ELSE parseFrom(k + 1, text)

parseErrorForPackageAlias(error) == parseFrom(1, errorToString(error))

---------------------------------------------------------------------------
(* Data *)

PackageNames ==
    { << "l" >>,                    \* an unscoped package
      << "l", "/", "x" >>,          \* an entry under the sub-path l/
      << "l", "p" >>,               \* an unrelated name with the same prefix
      << "@", "s", "/", "p" >> }    \* a scoped package

\* the names a map handed to the Manifest Pruner on its own can hold
AllNames == PackageNames \cup { << "l", "p", "/", "x" >> }

\* the version range a manifest of the model declares for a package
DeclaredVersion(name, isDevDep) ==
    IF isDevDep
    THEN (CASE name = << "l" >>           -> "~3.0.0"
            [] name = << "l", "/", "x" >> -> "~3.1.0"
            [] name = << "l", "p" >>      -> "~3.2.0"
            [] OTHER                      -> "~3.3.0")
    ELSE (CASE name = << "l" >>           -> "1.0.0"
            [] name = << "l", "/", "x" >> -> "^1.1.0"
            [] name = << "l", "p" >>      -> "^1.2.0"
            [] OTHER                      -> "^1.3.0")

EmptyMap == << >>

MapsOver(names, isDevDep, k) ==
    { [name \in S |-> DeclaredVersion(name, isDevDep)] :
        S \in { T \in SUBSET names : Cardinality(T) <= k } }

Optional(S) == { << >> } \cup { << x >> : x \in S }

Manifests ==
    [dependencies    : Optional(MapsOver(PackageNames, FALSE, MaxDeps)),
     devDependencies : Optional(MapsOver(PackageNames, TRUE, MaxDevDeps)),
     scripts         : Optional({ [build |-> "tsc", test |-> "jest"] })]

LockedSets ==
    { [n \in S |-> [name |-> n, version |-> "0.0.1"]] :
        S \in { T \in SUBSET PackageNames : Cardinality(T) <= MaxLocked } }

NoManifest == [dependencies |-> << >>, devDependencies |-> << >>, scripts |-> << >>]

\* mutant: a map without entries is left out of the text
JSONstringify_DropEmpty(pkg) ==
    [k \in { f \in DOMAIN pkg : pkg[f] \notin { << >>, << EmptyMap >> } } |->
        pkg[k][1]]

\* JSON.stringify(packageJson, null, 2): the text holds the properties whose
\* value is not undefined (an empty map is written as {})
JSONstringify(pkg) ==
    [k \in { f \in DOMAIN pkg : pkg[f] # << >> } |-> pkg[k][1]]

\* JSON.parse of the text of a manifest: a property the text lacks is undefined
JSONparse(text) ==
    [k \in {"dependencies", "devDependencies", "scripts"} |->
        IF k \in DOMAIN text THEN << text[k] >> ELSE << >>]

\* the manifest that is read back from the file fs.writeFileSync(path,
\* JSON.stringify(pkg, null, 2)) has written
Written(pkg) == JSONparse(JSONstringify(pkg))

\* Object.keys(x || {})
Keys(optMap) == IF optMap = << >> THEN {} ELSE DOMAIN optMap[1]

\* { ...a, ...b }
Spread(a, b) ==
    [n \in DOMAIN a \cup DOMAIN b |-> IF n \in DOMAIN b THEN b[n] ELSE a[n]]

Store ==
    [removedLocalDeps     |-> removedLocalDeps,
     removedLocalDevDeps  |-> removedLocalDevDeps,
     removedLockedDeps    |-> removedLockedDeps,
     removedLockedDevDeps |-> removedLockedDevDeps]

---------------------------------------------------------------------------
(* Manifest Pruner.  The pruning functions mutate their `dependencies`      *)
(* argument and one module-level record; here they take the records as     *)
(* `store` and return [dependencies, store] as they are after the call.    *)

\* mutant: the removals of devDependencies are filed with the dependencies
getRecord_DepsOnly(dependencyType, isDevDep) ==
    IF dependencyType = "local" THEN "removedLocalDeps" ELSE "removedLockedDeps"

\* the record a removal is filed in (a reference: the name of the record)
getRecord(dependencyType, isDevDep) ==
    IF dependencyType = "local"
    THEN (IF isDevDep THEN "removedLocalDevDeps" ELSE "removedLocalDeps")
    ELSE (IF isDevDep THEN "removedLockedDevDeps" ELSE "removedLockedDeps")

\* mutant: only one of the matching entries is removed by a call
removeAndRecordDependencies_FirstOnly(store, dependencies, isDevDep, dependencyType, condition) ==
    IF dependencies = << >>
    THEN [dependencies |-> dependencies, store |-> store]
    ELSE LET record   == getRecord(dependencyType, isDevDep)
             deps     == dependencies[1]
             matching == { name \in DOMAIN deps : condition[name] }
             removed  == IF matching = {} THEN {}
                         ELSE { CHOOSE name \in matching : TRUE }
         IN  [dependencies |->
                  << [name \in DOMAIN deps \ removed |-> deps[name]] >>,
              store |->
                  [store EXCEPT ![record] =
                      [name \in DOMAIN store[record] \cup removed |->
                          IF name \in removed THEN deps[name]
                          ELSE store[record][name]]]]

\* mutant: the entry is recorded but not deleted from the map
removeAndRecordDependencies_NoDelete(store, dependencies, isDevDep, dependencyType, condition) ==
    IF dependencies = << >>
    THEN [dependencies |-> dependencies, store |-> store]
    ELSE LET record  == getRecord(dependencyType, isDevDep)
             deps    == dependencies[1]
             removed == { name \in DOMAIN deps : condition[name] }
         IN  [dependencies |-> dependencies,
              store |->
                  [store EXCEPT ![record] =
                      [name \in DOMAIN store[record] \cup removed |->
                          IF name \in removed THEN deps[name]
                          ELSE store[record][name]]]]

\* condition is the predicate as a function of the name
removeAndRecordDependencies(store, dependencies, isDevDep, dependencyType, condition) ==
    IF dependencies = << >>
    THEN [dependencies |-> dependencies, store |-> store]
    ELSE LET record  == getRecord(dependencyType, isDevDep)
             deps    == dependencies[1]
             removed == { name \in DOMAIN deps : condition[name] }
         IN  [dependencies |->
                  << [name \in DOMAIN deps \ removed |-> deps[name]] >>,
              store |->
                  [store EXCEPT ![record] =
                      [name \in DOMAIN store[record] \cup removed |->
                          IF name \in removed THEN deps[name]
                          ELSE store[record][name]]]]

\* mutant: the alias is taken as a prefix of the name, without the "/"
removeAliasDeps_Prefix(store, alias, dependencies, isDevDep) ==
    removeAndRecordDependencies(store, dependencies, isDevDep, "local",
        [name \in AllNames |-> startsWith(name, alias)])

removeAliasDeps(store, alias, dependencies, isDevDep) ==
    removeAndRecordDependencies(store, dependencies, isDevDep, "local",
        [name \in AllNames |-> startsWith(name, alias \o << "/" >>)])

removeLockedDeps(store, locked, dependencies, isDevDep) ==
    removeAndRecordDependencies(store, dependencies, isDevDep, "locked",
        [name \in AllNames |-> name \in DOMAIN locked])

\* mutant: the scripts are recorded but stay in the manifest
removeScripts_NoDelete(pkg, scripts) ==
    IF pkg.scripts # << >>
    THEN [packageJson    |-> pkg,
          removedScripts |-> Spread(scripts, pkg.scripts[1])]
    ELSE [packageJson |-> pkg, removedScripts |-> scripts]

\* removeScripts: [packageJson, removedScripts] after the call
removeScripts(pkg, scripts) ==
    IF pkg.scripts # << >>
    THEN [packageJson    |-> [pkg EXCEPT !.scripts = << >>],
          removedScripts |-> Spread(scripts, pkg.scripts[1])]
    ELSE [packageJson |-> pkg, removedScripts |-> scripts]

---------------------------------------------------------------------------
(* Diagnostics of a failed `yarn install` (the stderr text) *)

YARN_REGISTRY == "registry.yarnpkg.com"
OTHER_REGISTRY == "registry.example.com"

\* error Couldn't find package "<name>" on the "npm" registry.
CouldntFindPackage(name) ==
    << "error Couldn't find package ", QUOTE >> \o name
        \o << QUOTE, " on the ", QUOTE, "npm", QUOTE, " registry." >>

\* error An unexpected error occurred: "https://<host>/<path>: Not found".
RegistryNotFound(host, encodedPath) ==
    << UNEXPECTED, QUOTE, "https://", host, "/" >> \o encodedPath
        \o << ":", " Not found", QUOTE, "." >>

\* error Couldn't find any versions for "<name>" that matches "<range>"
CouldntFindVersions(name) ==
    << "error Couldn't find any versions for ", QUOTE >> \o name
        \o << QUOTE, " that matches", " ", QUOTE, "1.0.0", QUOTE >>

Unrecognized == << "error Command failed with exit code 1." >>

\* the diagnostics the install command of the model fails with
InstallDiagnostics ==
    { CouldntFindPackage(<< "l" >>),
      RegistryNotFound(YARN_REGISTRY, << "%", "4", "0", "s", "%", "2", "F", "p" >>),
      CouldntFindPackage(<< "%" >>),
      Unrecognized }

---------------------------------------------------------------------------
(* cleanPackageJson *)

\* mutant: a budget two larger than the entry count
computeMaxRetries_Plus2(pkg) ==
    Cardinality(Keys(pkg.dependencies)) + Cardinality(Keys(pkg.devDependencies)) + 2

\* line 217
computeMaxRetries(pkg) ==
    Cardinality(Keys(pkg.dependencies)) + Cardinality(Keys(pkg.devDependencies))

\* the entries of the dependencies and the devDependencies of a manifest
EntryCount(pkg) ==
    Cardinality(Keys(pkg.dependencies)) + Cardinality(Keys(pkg.devDependencies))

\* line 133: the guard of the retry loop
loopGuard(count, max) == count < max

\* line 152
incrementRetryCount(count) == count + 1

\* line 155: is exhaustion reported once the loop has ended
reportsExhaustion(count, max) == count >= max

\* mutant: the pre-filter leaves devDependencies alone
preFilter_DepsOnly(pkg, store, scripts, locked) ==
    LET s  == removeScripts(pkg, scripts)
        r1 == removeLockedDeps(store, locked, s.packageJson.dependencies, FALSE)
    IN  [packageJson    |-> [s.packageJson EXCEPT !.dependencies = r1.dependencies],
         store          |-> r1.store,
         removedScripts |-> s.removedScripts]

\* lines 211-213: [packageJson, store, removedScripts] after the pre-filter
preFilter(pkg, store, scripts, locked) ==
    LET s  == removeScripts(pkg, scripts)
        r1 == removeLockedDeps(store, locked, s.packageJson.dependencies, FALSE)
        r2 == removeLockedDeps(r1.store, locked, s.packageJson.devDependencies, TRUE)
    IN  [packageJson    |-> [s.packageJson EXCEPT !.dependencies = r1.dependencies,
                                                   !.devDependencies = r2.dependencies],
         store          |-> r2.store,
         removedScripts |-> s.removedScripts]

\* lines 146-147: [packageJson, store] after pruning with the alias
pruneAlias(pkg, store, alias) ==
    LET r1 == removeAliasDeps(store, alias, pkg.dependencies, FALSE)
        r2 == removeAliasDeps(r1.store, alias, pkg.devDependencies, TRUE)
    IN  [packageJson |-> [pkg EXCEPT !.dependencies = r1.dependencies,
                                     !.devDependencies = r2.dependencies],
         store       |-> r2.store]

\* mutant: the two detail documents of the dependencies are swapped
saveRemovedItems_Swapped(store, scripts) ==
    << [file |-> "details/removedLocalPackages.json",
        data |-> store.removedLockedDeps],
       [file |-> "details/removedLockedPackages.json",
        data |-> store.removedLocalDeps],
       [file |-> "details/removedScripts.json",
        data |-> scripts],
       [file |-> "allRemovedItems.json",
        data |-> [scripts           |-> scripts,
                  localDependencies |-> Spread(store.removedLocalDeps,
                                               store.removedLockedDeps),
                  devDependencies   |-> Spread(store.removedLocalDevDeps,
                                               store.removedLockedDevDeps)]] >>

\* the documents saveRemovedItems writes, in the order it writes them
saveRemovedItems(store, scripts) ==
    << [file |-> "details/removedLocalPackages.json",
        data |-> store.removedLocalDeps],
       [file |-> "details/removedLockedPackages.json",
        data |-> store.removedLockedDeps],
       [file |-> "details/removedScripts.json",
        data |-> scripts],
       [file |-> "allRemovedItems.json",
        data |-> [scripts           |-> scripts,
                  localDependencies |-> Spread(store.removedLocalDeps,
                                               store.removedLockedDeps),
                  devDependencies   |-> Spread(store.removedLocalDevDeps,
                                               store.removedLockedDevDeps)]] >>

ExportFiles ==
    { "details/removedLocalPackages.json", "details/removedLockedPackages.json",
      "details/removedScripts.json", "allRemovedItems.json" }

SetStore(store) ==
    /\ removedLocalDeps' = store.removedLocalDeps
    /\ removedLocalDevDeps' = store.removedLocalDevDeps
    /\ removedLockedDeps' = store.removedLockedDeps
    /\ removedLockedDevDeps' = store.removedLockedDevDeps

\* the retry loop from its guard on, up to the next await or the end of
\* attemptInstallWithRetries (lines 133-136, 155-157)
LoopHead(count, max) ==
    IF loopGuard(count, max)
    THEN /\ pc' = "install"
         /\ installCalls' = installCalls + 1
         /\ UNCHANGED << outcome, exhaustionLogged >>
    ELSE /\ pc' = "save"
         /\ outcome' = "Exhausted"
         /\ exhaustionLogged' = reportsExhaustion(count, max)
         /\ UNCHANGED installCalls

\* mutant: the break does not skip the increment of line 152
Break_Counted(how) ==
    /\ pc' = "save"
    /\ outcome' = how
    /\ exhaustionLogged' = reportsExhaustion(incrementRetryCount(retryCount), maxRetries)

\* a break out of the loop (lines 138, 143), then lines 155-157
Break(how) ==
    /\ pc' = "save"
    /\ outcome' = how
    /\ exhaustionLogged' = reportsExhaustion(retryCount, maxRetries)

Init ==
    /\ pc = "idle"
    /\ disk \in Manifests
    /\ lockedDependencies \in LockedSets
    /\ packageJson = NoManifest
    /\ original = disk
    /\ removedLocalDeps = EmptyMap
    /\ removedLocalDevDeps = EmptyMap
    /\ removedLockedDeps = EmptyMap
    /\ removedLockedDevDeps = EmptyMap
    /\ removedScripts = EmptyMap
    /\ maxRetries = 0
    /\ retryCount = 0
    /\ installCalls = 0
    /\ manifestWrites = 0
    /\ lastError = << >>
    /\ packageAlias = Null
    /\ outcome = "none"
    /\ exhaustionLogged = FALSE
    /\ saveCalls = 0
    /\ exported = [f \in ExportFiles |-> << >>]
    /\ run = 1
    /\ allFailuresPruned = TRUE

\* parseErrorForPackageAlias, tabulated over the diagnostics of the model
classify == [e \in InstallDiagnostics |-> parseErrorForPackageAlias(e)]

\* cleanPackageJson up to its first await (lines 208-218, 131-136, 155-157);
\* the read of line 209 is taken to succeed;
\* writeOk: does fs.writeFileSync of line 215 succeed
Start(writeOk) ==
    /\ pc = "idle"
    /\ LET f == preFilter(disk, Store, removedScripts, lockedDependencies)
       IN  /\ packageJson' = f.packageJson
           /\ SetStore(f.store)
           /\ removedScripts' = f.removedScripts
           /\ IF writeOk
              THEN /\ disk' = Written(f.packageJson)
                   /\ manifestWrites' = manifestWrites + 1
                   /\ maxRetries' = computeMaxRetries(f.packageJson)
                   /\ retryCount' = 0
                   /\ LoopHead(0, maxRetries')
              ELSE /\ pc' = "thrown"
                   /\ UNCHANGED << disk, manifestWrites, maxRetries, retryCount,
                                   installCalls, outcome, exhaustionLogged >>
    /\ UNCHANGED << lockedDependencies, original, lastError, packageAlias,
                    saveCalls, exported, run, allFailuresPruned >>

\* runCommand resolves (lines 137-138, 155-157)
InstallOk ==
    /\ pc = "install"
    /\ Break("Success")
    /\ UNCHANGED << disk, lockedDependencies, packageJson, original,
                    removedLocalDeps, removedLocalDevDeps, removedLockedDeps,
                    removedLockedDevDeps, removedScripts, maxRetries, retryCount,
                    installCalls, manifestWrites, lastError, packageAlias,
                    saveCalls, exported, run, allFailuresPruned >>

\* line 140 throws: URIError leaves the catch block and rejects the promise
\* of attemptInstallWithRetries, hence that of cleanPackageJson
OnClassifierThrow ==
    /\ pc' = "thrown"
    /\ UNCHANGED << disk, packageJson, removedLocalDeps, removedLocalDevDeps,
                    removedLockedDeps, removedLockedDevDeps, retryCount,
                    installCalls, manifestWrites, outcome, exhaustionLogged >>

\* mutant: no alias counts as a retry instead of ending the loop
OnNoSignal_Continue ==
    /\ retryCount' = incrementRetryCount(retryCount)
    /\ LoopHead(retryCount', maxRetries)
    /\ UNCHANGED << disk, packageJson, removedLocalDeps, removedLocalDevDeps,
                    removedLockedDeps, removedLockedDevDeps, manifestWrites >>

\* lines 141-144: no alias
OnNoSignal ==
    /\ Break("Aborted")
    /\ UNCHANGED << disk, packageJson, removedLocalDeps, removedLocalDevDeps,
                    removedLockedDeps, removedLockedDevDeps, retryCount,
                    installCalls, manifestWrites >>

\* mutant: a failed write of line 149 is swallowed and the loop goes on
OnAlias_WriteIgnored(alias, writeOk) ==
    LET p == pruneAlias(packageJson, Store, alias)
    IN  /\ packageJson' = p.packageJson
        /\ SetStore(p.store)
        /\ disk' = IF writeOk THEN Written(p.packageJson) ELSE disk
        /\ manifestWrites' = IF writeOk THEN manifestWrites + 1 ELSE manifestWrites
        /\ retryCount' = incrementRetryCount(retryCount)
        /\ LoopHead(retryCount', maxRetries)

\* lines 146-152, then the loop from its guard on;
\* writeOk: does fs.writeFileSync of line 149 succeed
OnAlias(alias, writeOk) ==
    LET p == pruneAlias(packageJson, Store, alias)
    IN  /\ packageJson' = p.packageJson
        /\ SetStore(p.store)
        /\ IF writeOk
           THEN /\ disk' = Written(p.packageJson)
                /\ manifestWrites' = manifestWrites + 1
                /\ retryCount' = incrementRetryCount(retryCount)
                /\ LoopHead(retryCount', maxRetries)
           ELSE /\ pc' = "thrown"
                /\ UNCHANGED << disk, manifestWrites, retryCount, installCalls,
                                outcome, exhaustionLogged >>

\* runCommand rejects with `error` (lines 139-157)
InstallFail(error, writeOk) ==
    /\ pc = "install"
    /\ lastError' = error
    /\ packageAlias' = classify[error]
    /\ CASE packageAlias'.kind = "throw" -> OnClassifierThrow
         [] packageAlias'.kind = "null"  -> OnNoSignal
         [] packageAlias'.kind = "alias" -> OnAlias(packageAlias'.alias, writeOk)
    /\ allFailuresPruned' = ( /\ allFailuresPruned
                              /\ EntryCount(packageJson') < EntryCount(packageJson) )
    /\ UNCHANGED << lockedDependencies, original, removedScripts, maxRetries,
                    saveCalls, exported, run >>

\* line 220: saveRemovedItems, of whose writes the first `written` succeed
Save(written) ==
    /\ pc = "save"
    /\ saveCalls' = saveCalls + 1
    /\ LET docs == saveRemovedItems(Store, removedScripts)
       IN  /\ exported' =
                 [f \in ExportFiles |->
                     IF \E i \in 1..written : docs[i].file = f
                     THEN << (CHOOSE d \in { docs[i] : i \in 1..written } :
                                 d.file = f).data >>
                     ELSE exported[f]]
           /\ pc' = IF written = Len(docs) THEN "done" ELSE "thrown"
    /\ UNCHANGED << disk, lockedDependencies, packageJson, original,
                    removedLocalDeps, removedLocalDevDeps, removedLockedDeps,
                    removedLockedDevDeps, removedScripts, maxRetries, retryCount,
                    installCalls, manifestWrites, lastError, packageAlias,
                    outcome, exhaustionLogged, run, allFailuresPruned >>

Next ==
    \/ \E writeOk \in BOOLEAN : Start(writeOk)
    \/ InstallOk
    \/ \E error \in InstallDiagnostics, writeOk \in BOOLEAN : InstallFail(error, writeOk)
    \/ \E written \in 0..4 : Save(written)

Spec == Init /\ [][Next]_vars

\* every call of the run returns and its continuation is scheduled
FairSpec == Spec /\ WF_vars(Next)

---------------------------------------------------------------------------
(* A second call of cleanPackageJson in the same process, made when the     *)
(* first has completed.  The module-level records of lines 10-14 are as the *)
(* first call left them; the locals of the call are new.                    *)

\* the manifest of another project the second call can be made for
OtherProjects ==
    { [dependencies    |-> << [name \in {<< "l", "p" >>} |->
                                 DeclaredVersion(name, FALSE)] >>,
       devDependencies |-> << >>,
       scripts         |-> << >>] }

\* cleanPackageJson is called again, for the project whose manifest is
\* `manifest` (lines 203-208)
SecondCall(manifest) ==
    /\ pc = "done"
    /\ run = 1
    /\ run' = 2
    /\ pc' = "idle"
    /\ disk' = manifest
    /\ original' = manifest
    /\ packageJson' = NoManifest
    /\ maxRetries' = 0
    /\ retryCount' = 0
    /\ installCalls' = 0
    /\ manifestWrites' = 0
    /\ lastError' = << >>
    /\ packageAlias' = Null
    /\ outcome' = "none"
    /\ exhaustionLogged' = FALSE
    /\ saveCalls' = 0
    /\ allFailuresPruned' = TRUE
    /\ UNCHANGED << lockedDependencies, removedLocalDeps, removedLocalDevDeps,
                    removedLockedDeps, removedLockedDevDeps, removedScripts,
                    exported >>

TwoRunNext ==
    \/ Next
    \/ \E manifest \in {disk} \cup OtherProjects : SecondCall(manifest)

TwoRunSpec == Init /\ [][TwoRunNext]_vars

---------------------------------------------------------------------------
(* The Manifest Pruner on its own: lines 146-147 applied to a manifest and  *)
(* an alias.                                                                *)

\* an alias has no "/" (line 33)
Aliases == { << "l" >>, << "l", "p" >>, << "@", "s" >> }

PrunerManifests ==
    [dependencies    : Optional(MapsOver(AllNames, FALSE, MaxDeps)),
     devDependencies : Optional(MapsOver(AllNames, TRUE, MaxDevDeps)),
     scripts         : { << >> }]

PrunerInit ==
    /\ pc = "pruner"
    /\ packageJson \in PrunerManifests
    /\ disk = packageJson
    /\ original = packageJson
    /\ packageAlias \in { Alias(a) : a \in Aliases }
    /\ lockedDependencies = EmptyMap
    /\ removedLocalDeps = EmptyMap
    /\ removedLocalDevDeps = EmptyMap
    /\ removedLockedDeps = EmptyMap
    /\ removedLockedDevDeps = EmptyMap
    /\ removedScripts = EmptyMap
    /\ maxRetries = 0
    /\ retryCount = 0
    /\ installCalls = 0
    /\ manifestWrites = 0
    /\ lastError = << >>
    /\ outcome = "none"
    /\ exhaustionLogged = FALSE
    /\ saveCalls = 0
    /\ exported = [f \in ExportFiles |-> << >>]
    /\ run = 1
    /\ allFailuresPruned = TRUE

\* lines 146-147 on their own
Prune ==
    /\ pc = "pruner"
    /\ pc' = "pruned"
    /\ LET p == pruneAlias(packageJson, Store, packageAlias.alias)
       IN  /\ packageJson' = p.packageJson
           /\ SetStore(p.store)
    /\ UNCHANGED << disk, lockedDependencies, original, removedScripts,
                    maxRetries, retryCount, installCalls, manifestWrites,
                    lastError, packageAlias, outcome, exhaustionLogged,
                    saveCalls, exported, run, allFailuresPruned >>

PrunerNext == Prune

PrunerSpec == PrunerInit /\ [][PrunerNext]_vars

---------------------------------------------------------------------------
(* The Error Classifier on its own: parseErrorForPackageAlias applied to a  *)
(* generated diagnostic.                                                    *)

CaptureAtoms == {"l", "/", "%", "4", "0", ":", QUOTE, "@"}

SeqsUpTo(S, n) == UNION { [1..k -> S] : k \in 1..n }

Shaped(capture) ==
    { RegistryNotFound(YARN_REGISTRY, capture),
      RegistryNotFound(OTHER_REGISTRY, capture),
      CouldntFindPackage(capture),
      CouldntFindVersions(capture) }

EncodedScopedPath == << "%", "4", "0", "s", "%", "2", "F", "p" >>

\* https://registry.example.com/%40s%2Fp: Not found
ScenarioD == << "https://", OTHER_REGISTRY, "/" >> \o EncodedScopedPath
                \o << ":", " Not found" >>

\* https://registry.yarnpkg.com/%40s%2Fp: Not found
ScenarioDYarn == << "https://", YARN_REGISTRY, "/" >> \o EncodedScopedPath
                    \o << ":", " Not found" >>

OneAtomDiagnostics == UNION { Shaped(<< a >>) : a \in CaptureAtoms }

Diagnostics ==
    UNION { Shaped(c) : c \in SeqsUpTo(CaptureAtoms, MaxCapture) }
        \cup { a \o b : a \in OneAtomDiagnostics, b \in OneAtomDiagnostics }
        \cup InstallDiagnostics
        \cup { ScenarioD, ScenarioDYarn }

ClassifierInit ==
    /\ pc = "classifier"
    /\ disk = NoManifest
    /\ lockedDependencies = EmptyMap
    /\ packageJson = NoManifest
    /\ original = NoManifest
    /\ removedLocalDeps = EmptyMap
    /\ removedLocalDevDeps = EmptyMap
    /\ removedLockedDeps = EmptyMap
    /\ removedLockedDevDeps = EmptyMap
    /\ removedScripts = EmptyMap
    /\ maxRetries = 0
    /\ retryCount = 0
    /\ installCalls = 0
    /\ manifestWrites = 0
    /\ lastError = << >>
    /\ packageAlias = Null
    /\ outcome = "none"
    /\ exhaustionLogged = FALSE
    /\ saveCalls = 0
    /\ exported = [f \in ExportFiles |-> << >>]
    /\ run = 1
    /\ allFailuresPruned = TRUE

\* line 140 on its own
Classify(error) ==
    /\ pc = "classifier"
    /\ lastError' = error
    /\ packageAlias' = parseErrorForPackageAlias(error)
    /\ pc' = "classified"
    /\ UNCHANGED << disk, lockedDependencies, packageJson, original,
                    removedLocalDeps, removedLocalDevDeps, removedLockedDeps,
                    removedLockedDevDeps, removedScripts, maxRetries, retryCount,
                    installCalls, manifestWrites, outcome, exhaustionLogged,
                    saveCalls, exported, run, allFailuresPruned >>

ClassifierNext == \E error \in Diagnostics : Classify(error)

ClassifierSpec == ClassifierInit /\ [][ClassifierNext]_vars

---------------------------------------------------------------------------
(* Properties *)

MapOf(optMap) == IF optMap = << >> THEN EmptyMap ELSE optMap[1]

OriginalCount ==
    Cardinality(Keys(original.dependencies))
        + Cardinality(Keys(original.devDependencies))

Ended == pc \in {"done", "thrown"}

\* C1: every run of cleanPackageJson ends, and it calls the install command
\* at most (entries of dependencies + entries of devDependencies of the
\* loaded manifest + 1) times.
C1_TerminationBound ==
    /\ [](installCalls <= OriginalCount + 1)
    /\ <>Ended

\* a run that used its whole budget on a manifest of two entries
C1_Witness ==
    /\ pc = "done"
    /\ outcome = "Exhausted"
    /\ OriginalCount >= 2
    /\ installCalls = OriginalCount

\* final, local and locked hold exactly the pairs of orig, final apart from
\* the two buckets
Conserved(orig, final, local, locked) ==
    /\ DOMAIN final \cap (DOMAIN local \cup DOMAIN locked) = {}
    /\ DOMAIN final \cup DOMAIN local \cup DOMAIN locked = DOMAIN orig
    /\ \A n \in DOMAIN final : final[n] = orig[n]
    /\ \A n \in DOMAIN local : local[n] = orig[n]
    /\ \A n \in DOMAIN locked : locked[n] = orig[n]

ConservedIn(manifest) ==
    /\ Conserved(MapOf(original.dependencies), MapOf(manifest.dependencies),
                 removedLocalDeps, removedLockedDeps)
    /\ Conserved(MapOf(original.devDependencies), MapOf(manifest.devDependencies),
                 removedLocalDevDeps, removedLockedDevDeps)

\* C2: at the end of a run started with empty buckets, for each kind the
\* final map and the local and locked buckets of the kind have disjoint keys
\* and together hold exactly the entries of the loaded map, versions intact.
\* (Of a run that ended by an exception the final map is the in-memory one.)
C2_Conservation ==
    /\ Ended => ConservedIn(packageJson)
    /\ pc = "done" => ConservedIn(disk)

\* a completed run that removed one entry as locked and one by alias
C2_Witness ==
    /\ pc = "done"
    /\ removedLockedDeps # EmptyMap
    /\ removedLocalDeps # EmptyMap

\* a step in which an install attempt fails (InstallOk sets outcome Success)
InstallFailStep == pc = "install" /\ outcome' # "Success"

\* a Pruning transition: the attempt failed and the Classifier gave an alias
PruneStep == InstallFailStep /\ packageAlias'.kind = "alias"

Unscoped(name) == \A i \in 1..Len(name) : name[i] \notin {"/", "@"}

\* the alias-removal predicate of the specification
Matches(name, alias) == name = alias \/ startsWith(name, alias \o << "/" >>)

\* C3 (Scenario A): when dependencies hold an unscoped name N and the first
\* install attempt fails with the package-not-found diagnostic naming N, N is
\* removed from dependencies and recorded with its version in
\* removedLocalDeps, and (the manifest written) a second attempt is made; if
\* that attempt succeeds the run ends in Success with N absent from
\* dependencies.
C3_ScenarioA ==
    [][\A N \in PackageNames :
        /\ ( /\ pc = "install"
             /\ installCalls = 1
             /\ Unscoped(N)
             /\ N \in Keys(packageJson.dependencies)
             /\ lastError' = CouldntFindPackage(N) )
           => /\ N \notin Keys(packageJson'.dependencies)
              /\ N \in DOMAIN removedLocalDeps'
              /\ removedLocalDeps'[N] = packageJson.dependencies[1][N]
              /\ manifestWrites' = manifestWrites + 1
                   => pc' = "install" /\ installCalls' = 2
        /\ ( /\ pc = "install"
             /\ installCalls = 2
             /\ retryCount = 1
             /\ Unscoped(N)
             /\ N \in Keys(original.dependencies)
             /\ N \notin DOMAIN lockedDependencies
             /\ lastError = CouldntFindPackage(N)
             /\ outcome' = "Success" )
           => N \notin Keys(packageJson'.dependencies)
    ]_vars

\* C4: when the controller prunes with alias A, every entry of dependencies
\* and of devDependencies whose name is A or begins with A + "/" is removed
\* from its map and put, with its version, into the local bucket of its kind.
C4_AliasRemoval ==
    [][PruneStep =>
        \A n \in PackageNames :
            Matches(n, packageAlias'.alias) =>
                /\ n \in Keys(packageJson.dependencies) =>
                      /\ n \notin Keys(packageJson'.dependencies)
                      /\ n \in DOMAIN removedLocalDeps'
                      /\ removedLocalDeps'[n] = packageJson.dependencies[1][n]
                /\ n \in Keys(packageJson.devDependencies) =>
                      /\ n \notin Keys(packageJson'.devDependencies)
                      /\ n \in DOMAIN removedLocalDevDeps'
                      /\ removedLocalDevDeps'[n] = packageJson.devDependencies[1][n]
    ]_vars

LocalFile == "details/removedLocalPackages.json"
LockedFile == "details/removedLockedPackages.json"
ScriptsFile == "details/removedScripts.json"
SummaryFile == "allRemovedItems.json"

\* what a written document holds is what the buckets hold
WrittenFromBuckets ==
    /\ exported[LocalFile] # << >> => exported[LocalFile][1] = removedLocalDeps
    /\ exported[LockedFile] # << >> => exported[LockedFile][1] = removedLockedDeps
    /\ exported[ScriptsFile] # << >> => exported[ScriptsFile][1] = removedScripts
    /\ exported[SummaryFile] # << >> =>
          LET all == exported[SummaryFile][1]
          IN  /\ all.scripts = removedScripts
              /\ DOMAIN all.localDependencies
                    = DOMAIN removedLocalDeps \cup DOMAIN removedLockedDeps
              /\ \A n \in DOMAIN removedLockedDeps :
                    all.localDependencies[n] = removedLockedDeps[n]
              /\ \A n \in DOMAIN removedLocalDeps \ DOMAIN removedLockedDeps :
                    all.localDependencies[n] = removedLocalDeps[n]
              /\ DOMAIN all.devDependencies
                    = DOMAIN removedLocalDevDeps \cup DOMAIN removedLockedDevDeps
              /\ \A n \in DOMAIN removedLockedDevDeps :
                    all.devDependencies[n] = removedLockedDevDeps[n]
              /\ \A n \in DOMAIN removedLocalDevDeps \ DOMAIN removedLockedDevDeps :
                    all.devDependencies[n] = removedLocalDevDeps[n]

Terminal == {"Success", "Aborted", "Exhausted"}

\* C5: saveRemovedItems runs exactly once per run, after the Retry Controller
\* has reached a terminal state, on each of the terminal paths Success,
\* Aborted and Exhausted, and it writes the content the buckets have then.
C5_ExportOnce ==
    /\ [](saveCalls <= 1)
    /\ [](saveCalls = 1 => outcome \in Terminal)
    /\ [](pc = "done" => saveCalls = 1)
    /\ []WrittenFromBuckets
    /\ []((Ended /\ outcome \in Terminal) => saveCalls = 1)
    /\ <>Ended

\* a run that aborted after one prune and whose export was written
C5_Witness ==
    /\ pc = "done"
    /\ outcome = "Aborted"
    /\ saveCalls = 1
    /\ removedLocalDeps # EmptyMap
    /\ exported[LocalFile] = << removedLocalDeps >>

NoLockedMatch ==
    DOMAIN lockedDependencies
        \cap (Keys(original.dependencies) \cup Keys(original.devDependencies)) = {}

\* C6: when an install attempt fails and the Classifier returns no alias, the
\* controller stops at once: no further install attempt, no entry removed,
\* no bucket changed, the manifest not rewritten; when this is the first
\* attempt and nothing matched the locked set, saveRemovedItems still runs
\* and the documents it writes show empty dependency buckets.
C6_AbortOnNoSignal ==
    /\ [][(InstallFailStep /\ packageAlias'.kind = "null") =>
             /\ outcome' = "Aborted"
             /\ pc' = "save"
             /\ installCalls' = installCalls
             /\ packageJson' = packageJson
             /\ Store' = Store
             /\ removedScripts' = removedScripts
             /\ disk' = disk
             /\ manifestWrites' = manifestWrites]_vars
    /\ [][outcome = "Aborted" =>
             /\ installCalls' = installCalls
             /\ packageJson' = packageJson
             /\ Store' = Store
             /\ disk' = disk
             /\ pc = "save" => saveCalls' = 1]_vars
    /\ []((outcome = "Aborted" /\ retryCount = 0 /\ NoLockedMatch) =>
             /\ Store = [removedLocalDeps |-> EmptyMap, removedLocalDevDeps |-> EmptyMap,
                         removedLockedDeps |-> EmptyMap, removedLockedDevDeps |-> EmptyMap]
             /\ pc = "done" =>
                   /\ exported[LocalFile] = << EmptyMap >>
                   /\ exported[LockedFile] = << EmptyMap >>
                   /\ exported[SummaryFile] # << >>
                   /\ exported[SummaryFile][1].localDependencies = EmptyMap
                   /\ exported[SummaryFile][1].devDependencies = EmptyMap)

\* an abort on the first attempt of a manifest with entries, export written
C6_Witness ==
    /\ pc = "done"
    /\ outcome = "Aborted"
    /\ retryCount = 0
    /\ installCalls = 1
    /\ lastError = Unrecognized
    /\ NoLockedMatch
    /\ OriginalCount >= 1

\* C7: before the first install attempt every key of the locked set has been
\* removed from dependencies and devDependencies of the persisted manifest
\* and recorded with its version in the locked bucket of its kind, the
\* pre-filter has removed no other name, and at every install attempt the
\* manifest holds no locked name.
C7_LockedPreFilter ==
    installCalls >= 1 =>
        /\ \A n \in DOMAIN lockedDependencies :
              /\ n \notin Keys(disk.dependencies) \cup Keys(disk.devDependencies)
              /\ n \notin Keys(packageJson.dependencies)
                             \cup Keys(packageJson.devDependencies)
              /\ n \in Keys(original.dependencies) =>
                    /\ n \in DOMAIN removedLockedDeps
                    /\ removedLockedDeps[n] = original.dependencies[1][n]
              /\ n \in Keys(original.devDependencies) =>
                    /\ n \in DOMAIN removedLockedDevDeps
                    /\ removedLockedDevDeps[n] = original.devDependencies[1][n]
        /\ DOMAIN removedLockedDeps \subseteq DOMAIN lockedDependencies
        /\ DOMAIN removedLockedDevDeps \subseteq DOMAIN lockedDependencies
        /\ installCalls = 1 /\ pc = "install" =>
              /\ Keys(disk.dependencies)
                    = Keys(original.dependencies) \ DOMAIN lockedDependencies
              /\ Keys(disk.devDependencies)
                    = Keys(original.devDependencies) \ DOMAIN lockedDependencies

\* Scenario B: one entry removed as locked, another presented to the install
C7_Witness ==
    /\ pc = "install"
    /\ installCalls = 1
    /\ removedLockedDeps # EmptyMap
    /\ removedLockedDevDeps # EmptyMap
    /\ Keys(disk.dependencies) # {}

\* the text before the first "/" of str
BeforeFirstSlash(str) ==
    LET slashes == { i \in 1..Len(str) : HasSlash(str[i]) }
    IN  IF slashes = {} THEN str
        ELSE SubSeq(str, 1, (CHOOSE i \in slashes : \A j \in slashes : i <= j) - 1)

\* the shapes (by number) that match the text
MatchingShapes(text) == { k \in 1..Len(patterns) : exec(patterns[k], text) # << >> }

Least(S) == CHOOSE k \in S : \A j \in S : k <= j

Captured(k, text) == decodeURIComponent(exec(patterns[k], text)[1])

\* C8 as claimed, for captures that are percent-encoded package paths (the
\* encoding valid, the decoded text not starting with "/"): the first shape
\* that matches determines the result, which is the percent-decoded capture
\* cut before its first "/"; a diagnostic of no shape gives no-signal; the
\* diagnostic https://registry.example.com/%40s%2Fp: Not found gives the
\* alias @s.
C8_ClassifierAsClaimed ==
    lastError # << >> =>
        LET text == errorToString(lastError)
        IN  /\ IF MatchingShapes(text) = {} THEN packageAlias = Null
               ELSE LET k == Least(MatchingShapes(text))
                    IN  ( /\ Captured(k, text).ok
                          /\ BeforeFirstSlash(Captured(k, text).str) # << >> )
                        => packageAlias
                              = Alias(BeforeFirstSlash(Captured(k, text).str))
            /\ lastError = ScenarioD => packageAlias = Alias(<< "@", "s" >>)

\* C8 amended: the shapes are tried in the fixed order; the result is that of
\* the first matching shape whose capture either is no valid
\* percent-encoding (URIError is thrown) or decodes to a text that does not
\* begin with "/" (the alias is that text cut before its first "/"); with no
\* such shape the result is no-signal.  The registry shape is that of
\* registry.yarnpkg.com: https://registry.yarnpkg.com/%40s%2Fp: Not found
\* gives @s, the same path at registry.example.com gives no-signal.
C8_Classifier ==
    lastError # << >> =>
        LET text     == errorToString(lastError)
            decisive == { k \in MatchingShapes(text) :
                            \/ ~Captured(k, text).ok
                            \/ BeforeFirstSlash(Captured(k, text).str) # << >> }
        IN  /\ IF decisive = {} THEN packageAlias = Null
               ELSE IF Captured(Least(decisive), text).ok
               THEN packageAlias
                       = Alias(BeforeFirstSlash(Captured(Least(decisive), text).str))
               ELSE packageAlias = URIError
            /\ lastError = ScenarioDYarn => packageAlias = Alias(<< "@", "s" >>)
            /\ lastError = ScenarioD => packageAlias = Null

\* the yarn registry diagnostic of a scoped package, classified as its scope
C8_Witness ==
    /\ pc = "classified"
    /\ lastError = ScenarioDYarn
    /\ packageAlias = Alias(<< "@", "s" >>)

\* the bucket is the content of one of the detail documents
WrittenAsState(bucket) ==
    \E f \in ExportFiles \ {SummaryFile} : exported[f] = << bucket >>

\* C9: at the end of a run the export holds each of the five removal buckets
\* as written state, and a summary that for each kind holds the union of the
\* local and the locked bucket, so that every entry is in the output with
\* its version and its origin.
C9_ExportCompleteness ==
    pc = "done" =>
        /\ WrittenAsState(removedLocalDeps)
        /\ WrittenAsState(removedLocalDevDeps)
        /\ WrittenAsState(removedLockedDeps)
        /\ WrittenAsState(removedLockedDevDeps)
        /\ WrittenAsState(removedScripts)
        /\ WrittenFromBuckets

Unchanged(optMap) == [dependencies |-> optMap, store |-> Store]

\* C10: removeAndRecordDependencies applied again, with the same predicate
\* and bucket, to a map that was pruned with it leaves the map and every
\* bucket as they are.
C10_PrunerIdempotent ==
    /\ pc \notin {"idle", "classifier"} =>
          /\ removeLockedDeps(Store, lockedDependencies,
                              packageJson.dependencies, FALSE)
                = Unchanged(packageJson.dependencies)
          /\ removeLockedDeps(Store, lockedDependencies,
                              packageJson.devDependencies, TRUE)
                = Unchanged(packageJson.devDependencies)
    /\ packageAlias.kind = "alias" =>
          /\ removeAliasDeps(Store, packageAlias.alias,
                             packageJson.dependencies, FALSE)
                = Unchanged(packageJson.dependencies)
          /\ removeAliasDeps(Store, packageAlias.alias,
                             packageJson.devDependencies, TRUE)
                = Unchanged(packageJson.devDependencies)

\* a prune by alias that removed one entry and left another
C10_Witness ==
    /\ pc = "install"
    /\ packageAlias.kind = "alias"
    /\ removedLocalDeps # EmptyMap
    /\ Keys(packageJson.dependencies) # {}

\* a Pruning transition whose write of the manifest (line 149) failed
FailedWriteStep == PruneStep /\ manifestWrites' = manifestWrites

\* C11: when the write of the manifest fails in a Pruning step, the failure
\* leaves cleanPackageJson (its promise is rejected): the stored manifest is
\* as it was, the write is not tried again, no further install attempt is
\* made and nothing else is done in the run.
C11_PersistenceFailure ==
    /\ [][FailedWriteStep =>
             /\ pc' = "thrown"
             /\ disk' = disk
             /\ installCalls' = installCalls
             /\ retryCount' = retryCount
             /\ outcome' = outcome
             /\ saveCalls' = saveCalls]_vars
    /\ [][pc # "thrown"]_vars

\* a prune that removed an entry in memory and whose write failed
C11_Witness ==
    /\ pc = "thrown"
    /\ packageAlias.kind = "alias"
    /\ installCalls = 1
    /\ manifestWrites = 1
    /\ saveCalls = 0
    /\ removedLocalDeps # EmptyMap
    /\ disk # packageJson

\* C12: every Pruning transition removes at least one name that was in
\* dependencies or devDependencies, so the number of entries of the manifest
\* is smaller after it than before.
C12_MonotonicShrinkage ==
    [][PruneStep =>
          /\ \E n \in PackageNames :
                \/ /\ n \in Keys(packageJson.dependencies)
                   /\ n \notin Keys(packageJson'.dependencies)
                \/ /\ n \in Keys(packageJson.devDependencies)
                   /\ n \notin Keys(packageJson'.devDependencies)
          /\ EntryCount(packageJson') < EntryCount(packageJson)
    ]_vars

\* C13: in a run that attempts the install and in which every failed attempt
\* removed at least one entry (so that no attempt failed on a manifest
\* without entries, which the install command is assumed to accept), the
\* controller ends in Success and never in Exhausted.
C13_BudgetSufficiency ==
    (installCalls >= 1 /\ allFailuresPruned /\ outcome \in Terminal)
        => outcome = "Success"

\* C14: every run that has loaded and stored its manifest makes at least one
\* install attempt, and exhaustion is entered, and reported, only after a
\* failed attempt that was followed by a prune; also when the manifest has no
\* entries after the pre-filter.
C14_StateMachineShape ==
    /\ manifestWrites >= 1 => installCalls >= 1
    /\ (outcome = "Exhausted" \/ exhaustionLogged) =>
          /\ installCalls >= 1
          /\ retryCount >= 1
          /\ packageAlias.kind = "alias"

\* C15: at every install attempt and in every terminal state of the
\* controller the stored manifest equals the in-memory one; a Pruning step
\* whose write succeeds has pruned dependencies and devDependencies and has
\* written the manifest once, and the stored manifest only ever changes to
\* the in-memory manifest as it is after both prunes.
C15_PersistBeforeRetry ==
    /\ []((pc = "install" \/ outcome \in Terminal) => disk = packageJson)
    /\ [][(PruneStep /\ ~FailedWriteStep) =>
             /\ manifestWrites' = manifestWrites + 1
             /\ disk' = packageJson'
             /\ \A n \in PackageNames :
                   startsWith(n, packageAlias'.alias \o << "/" >>) =>
                       n \notin Keys(packageJson'.dependencies)
                                   \cup Keys(packageJson'.devDependencies)]_vars
    /\ [][disk' # disk => disk' = packageJson']_vars

\* a retry after a prune that took an entry from each of the two maps
C15_Witness ==
    /\ pc = "install"
    /\ manifestWrites = 2
    /\ removedLocalDeps # EmptyMap
    /\ removedLocalDevDeps # EmptyMap
    /\ disk = packageJson
    /\ EntryCount(disk) >= 1

\* the manifest of the run: the stored one until it is loaded
Manifest == IF pc = "idle" THEN disk ELSE packageJson

BucketNames == { "removedLocalDeps", "removedLocalDevDeps",
                 "removedLockedDeps", "removedLockedDevDeps" }

BucketsOf(n) == { b \in BucketNames : n \in DOMAIN Store[b] }

\* C16 as claimed: no name is a key of more than one of the four buckets,
\* and every name of the original dependencies or devDependencies is either
\* still in the manifest or in exactly one bucket, never both.
C16_DisjointAsClaimed ==
    /\ \A n \in PackageNames : Cardinality(BucketsOf(n)) <= 1
    /\ \A n \in Keys(original.dependencies) \cup Keys(original.devDependencies) :
          LET present == n \in Keys(Manifest.dependencies)
                                 \cup Keys(Manifest.devDependencies)
          IN  /\ present => BucketsOf(n) = {}
              /\ ~present => Cardinality(BucketsOf(n)) = 1

\* name n of the map orig is in exactly one of: the map now, local, locked
ExactlyOneOf(n, now, local, locked) ==
    Cardinality({ i \in 1..3 : n \in << DOMAIN now, DOMAIN local, DOMAIN locked >>[i] }) = 1

\* C16 amended: in every state of a single run, for each kind (dependencies,
\* devDependencies) the local and the locked bucket of the kind hold only
\* names of the original map of the kind, and every name of that map is in
\* exactly one of the manifest's map of the kind, the local bucket and the
\* locked bucket of the kind.  The kinds are kept apart: a name of both
\* original maps that is removed from both is a key of two buckets, one of
\* each kind.
C16_BucketDisjointness ==
    /\ DOMAIN removedLocalDeps \cup DOMAIN removedLockedDeps
          \subseteq Keys(original.dependencies)
    /\ DOMAIN removedLocalDevDeps \cup DOMAIN removedLockedDevDeps
          \subseteq Keys(original.devDependencies)
    /\ \A n \in Keys(original.dependencies) :
          ExactlyOneOf(n, MapOf(Manifest.dependencies),
                       removedLocalDeps, removedLockedDeps)
    /\ \A n \in Keys(original.devDependencies) :
          ExactlyOneOf(n, MapOf(Manifest.devDependencies),
                       removedLocalDevDeps, removedLockedDevDeps)
    /\ DOMAIN removedLocalDeps \cap DOMAIN removedLockedDeps = {}
    /\ DOMAIN removedLocalDevDeps \cap DOMAIN removedLockedDevDeps = {}

\* a name of both original maps, pruned by alias from both
C16_Witness ==
    \E n \in PackageNames :
        /\ n \in Keys(original.dependencies) \cap Keys(original.devDependencies)
        /\ BucketsOf(n) = { "removedLocalDeps", "removedLocalDevDeps" }
        /\ n \notin Keys(packageJson.dependencies) \cup Keys(packageJson.devDependencies)

EntriesOf(part, orig) ==
    \A n \in DOMAIN part : n \in DOMAIN orig /\ part[n] = orig[n]

\* C18: the documents a completed run of cleanPackageJson has exported hold
\* only entries removed from the manifest of that run, also when the run is
\* the second one of the process.
C18_RunIsolation ==
    pc = "done" =>
        /\ EntriesOf(exported[LocalFile][1], MapOf(original.dependencies))
        /\ EntriesOf(exported[LockedFile][1], MapOf(original.dependencies))
        /\ EntriesOf(exported[ScriptsFile][1], MapOf(original.scripts))
        /\ EntriesOf(exported[SummaryFile][1].localDependencies,
                     MapOf(original.dependencies))
        /\ EntriesOf(exported[SummaryFile][1].devDependencies,
                     MapOf(original.devDependencies))
        /\ EntriesOf(exported[SummaryFile][1].scripts, MapOf(original.scripts))

\* C19: from the first install attempt on, the removed-scripts bucket holds
\* every script of the loaded manifest with its command and the stored (and
\* the in-memory) manifest has no scripts; no step after the pre-filter
\* changes the bucket.
C19_ScriptStripping ==
    /\ [](installCalls >= 1 =>
             /\ removedScripts = MapOf(original.scripts)
             /\ disk.scripts = << >>
             /\ packageJson.scripts = << >>)
    /\ [][pc # "idle" => removedScripts' = removedScripts]_vars

\* a manifest with scripts, at the retry after a prune
C19_Witness ==
    /\ pc = "install"
    /\ retryCount >= 1
    /\ original.scripts # << >>
    /\ DOMAIN removedScripts = {"build", "test"}
    /\ removedScripts.build = "tsc"
    /\ disk.scripts = << >>

\* C20: a run whose loop ended by a successful install or by a no-signal
\* abort does not report exhaustion (its counter is below the budget), also
\* when that was the last attempt the budget allows; exhaustion is reported
\* only with outcome Exhausted; the retry counter changes only in a Pruning
\* step that wrote the manifest, and then by one.
C20_ExclusiveOutcome ==
    /\ [](outcome \in {"Success", "Aborted"} =>
             /\ ~exhaustionLogged
             /\ retryCount < maxRetries)
    /\ [](exhaustionLogged => outcome = "Exhausted")
    /\ [][retryCount' # retryCount =>
             /\ PruneStep
             /\ ~FailedWriteStep
             /\ retryCount' = retryCount + 1]_vars

\* a success on the last attempt of a budget of two or more
C20_Witness ==
    /\ outcome = "Success"
    /\ maxRetries >= 2
    /\ installCalls = maxRetries
    /\ retryCount = maxRetries - 1
    /\ ~exhaustionLogged

===========================================================================
